---- MODULE Spec2Model ----
(***************************************************************************)
(* ICLDataLoader (src/dataset.py): an iterator that pops a query index     *)
(* from a cycling queue, samples context examples from the rest of the     *)
(* corpus and formats an in-context prompt.                                *)
(*                                                                         *)
(* Corpus indices are the Python indices 0..N-1; data[i+1] is self.data[i].*)
(* A string is a sequence of tokens: <<"lit", s>> is a literal piece of an  *)
(* f-string (": ", "Sentence: ", " Answer: ", the newline), <<"input", v>> *)
(* and <<"output", v>> are the text of a field value.  Field values hold   *)
(* no newline.                                                             *)
(***************************************************************************)
EXTENDS Integers, Sequences, FiniteSets

MaxN == 3
MaxT == 3

\* every context size above the corpus size fails like context_size = N
MaxK == MaxN

\* the configured budgets: negative, none, a single prompt, and one that
\* outlasts a pass over a small corpus
TargetCounts == {-1, 0, 1, MaxT}

\* A record of the corpus, {input, output} (json) or {sentence, label} (hf):
\* record v has its own input text and one of two output texts (labels).
Item(v) == [input |-> v, output |-> v % 2]

NL == <<"lit", "\n">>

VARIABLES
    data,               \* self.data
    file_kind,          \* "json" iff 'json' in self.file_path
    context_size,       \* self.context_size
    dataset_size,       \* self.dataset_size
    ids,                \* self.ids
    ids_queue,          \* self.ids_queue
    has_iteration,      \* whether self.current_iteration / self.tqdm_bar exist
    current_iteration,  \* self.current_iteration
    tqdm_n,             \* self.tqdm_bar.n
    tqdm_closed,        \* self.tqdm_bar closed
    ret,                \* outcome of the last call
    pass_emitted,       \* history: queries of the prompts produced since the queue was last filled
    pass_refilled,      \* history: the queue was last filled by a refill in __next__
    pass_failed,        \* history: a step failed after the queue was last filled
    produced,           \* history: prompts returned since the last __iter__
    selected_lead,      \* history: per index, how many more times it was popped as query
                        \*          than the index popped least often
    first_selected      \* history: the first N indices popped as query since construction

vars == <<data, file_kind, context_size, dataset_size, ids, ids_queue,
          has_iteration, current_iteration, tqdm_n, tqdm_closed, ret,
          pass_emitted, pass_refilled, pass_failed, produced,
          selected_lead, first_selected>>

lifetime == <<selected_lead, first_selected>>

config == <<data, file_kind, context_size, dataset_size>>

N == Len(data)

Range(s) == {s[i] : i \in 1..Len(s)}

Range2(f) == {f[i] : i \in DOMAIN f}

\* list(range(n))
ListRange(n) == [i \in 1..n |-> i - 1]

\* the ways to take k different members of the set P, in order
RECURSIVE Draws(_, _)
Draws(P, k) ==
    IF k = 0 THEN {<<>>}
    ELSE UNION {{<<x>> \o d : d \in Draws(P \ {x}, k - 1)} : x \in P}

\* the outcomes of random.shuffle(s): every reordering of s
Shuffles(s) == {[i \in 1..Len(s) |-> s[p[i]]] : p \in Draws(1..Len(s), Len(s))}

\* The corpora of 0..MaxN records, one for every pattern of value-equal
\* positions: position i holds a copy of an earlier record or the next new one.
Corpora ==
    UNION {{[i \in 1..n |-> Item(c[i])] :
              c \in {d \in [1..n -> 1..n] :
                       \A i \in 1..n :
                          \/ d[i] = 1
                          \/ \E j \in 1..(i - 1) : d[j] = d[i] - 1}}
           : n \in 0..MaxN}

NoResult == [op |-> "none", outcome |-> "none", error |-> "none",
             query |-> -1, context |-> <<>>, prompt |-> <<>>]

Init ==
    /\ data \in Corpora
    /\ file_kind \in {"json", "hf"}
    /\ context_size \in 1..MaxK
    /\ dataset_size \in TargetCounts
    /\ ids \in Shuffles(ListRange(Len(data)))
    /\ ids_queue = ListRange(Len(data))
    /\ has_iteration = FALSE
    /\ current_iteration = 0
    /\ tqdm_n = 0
    /\ tqdm_closed = FALSE
    /\ ret = NoResult
    /\ pass_emitted = <<>>
    /\ pass_refilled = FALSE
    /\ pass_failed = FALSE
    /\ produced = 0
    /\ selected_lead = [i \in 0..(Len(data) - 1) |-> 0]
    /\ first_selected = <<>>

\* variant: restarting also refills the queue from ids
IterRefills ==
    /\ has_iteration' = TRUE
    /\ current_iteration' = 0
    /\ tqdm_n' = 0
    /\ tqdm_closed' = FALSE
    /\ ret' = [NoResult EXCEPT !.op = "iter", !.outcome = "self"]
    /\ produced' = 0
    /\ ids_queue' = ids
    /\ UNCHANGED <<config, ids, pass_emitted, pass_refilled, pass_failed, lifetime>>

Iter ==
    /\ has_iteration' = TRUE
    /\ current_iteration' = 0
    /\ tqdm_n' = 0
    /\ tqdm_closed' = FALSE
    /\ ret' = [NoResult EXCEPT !.op = "iter", !.outcome = "self"]
    /\ produced' = 0
    /\ UNCHANGED <<config, ids, ids_queue, pass_emitted, pass_refilled, pass_failed,
                   lifetime>>

(***************************************************************************)
(* __next__                                                                *)
(***************************************************************************)

\* variant: the budget test compares with == instead of >=
StopReachedExact(cur, target) == cur = target

\* variant: the budget test lets one more step through
StopReachedLate(cur, target) == cur > target

\* line 78: self.current_iteration >= self.dataset_size
StopReached(cur, target) == cur >= target

\* variant: the queue is refilled while one index is still waiting in it
RefillEarly(i, q) ==
    IF Len(q) <= 1
    THEN {<<s, s>> : s \in Shuffles(i)}
    ELSE {<<i, q>>}

\* lines 82-84: an empty queue is refilled with a copy of the reshuffled ids;
\* the set of possible <<ids, ids_queue>> after these lines
Refill(i, q) ==
    IF Len(q) = 0
    THEN {<<s, s>> : s \in Shuffles(i)}
    ELSE {<<i, q>>}

\* variant: the index is read from the tail while the head is removed
PopIndexLast(q) == q[Len(q)]

\* line 86: self.ids_queue.pop(0) returns the head ...
PopIndex(q) == Head(q)

\* variant: list.pop() removes the tail instead of the head
PopRestDropsLast(q) == SubSeq(q, 1, Len(q) - 1)

\* ... and leaves the rest in the queue
PopRest(q) == Tail(q)

\* variant: the comparison of line 88 inverted (== for !=)
ContextCandidatesEqual(d, item) ==
    SelectSeq(ListRange(Len(d)), LAMBDA i : d[i + 1] = item)

\* variant: no record is excluded from the candidates
ContextCandidatesAll(d, item) == ListRange(Len(d))

\* line 88: the indices of [item for item in self.data if item != prediction_item],
\* in corpus order
ContextCandidates(d, item) ==
    SelectSeq(ListRange(Len(d)), LAMBDA i : d[i + 1] # item)

\* variant: the sample must leave one candidate over
SampleFailsAtFull(cands, k) == k < 0 \/ k >= Len(cands)

\* line 90: random.sample raises ValueError
SampleFails(cands, k) == k < 0 \/ k > Len(cands)

\* variant: random.choices, drawing with replacement
SamplesWithReplacement(cands, k) ==
    {[j \in 1..k |-> cands[p[j]]] : p \in [1..k -> 1..Len(cands)]}

\* line 90: the outcomes of random.sample(cands, k): k entries of cands taken
\* from k different positions, in any order
Samples(cands, k) == {[j \in 1..k |-> cands[p[j]]] : p \in Draws(1..Len(cands), k)}

\* lines 94, 97: the f-string of one context example
FormatContext(kind, item) ==
    IF kind = "json"
    THEN <<<<"input", item.input>>, <<"lit", ": ">>, <<"output", item.output>>>>
    ELSE <<<<"lit", "Sentence: ">>, <<"input", item.input>>,
           <<"lit", " Answer: ">>, <<"output", item.output>>>>

\* lines 95, 98: the f-string appended for the prediction item
FormatQuery(kind, item) ==
    IF kind = "json"
    THEN <<NL, <<"input", item.input>>, <<"lit", ": ">>>>
    ELSE <<NL, <<"lit", "Sentence: ">>, <<"input", item.input>>, <<"lit", " Answer: ">>>>

\* variant: the examples are concatenated without the separator
RECURSIVE JoinNoSeparator(_, _)
JoinNoSeparator(sep, lines) ==
    IF Len(lines) = 0 THEN <<>>
    ELSE lines[1] \o JoinNoSeparator(sep, Tail(lines))

\* str.join
RECURSIVE Join(_, _)
Join(sep, lines) ==
    IF Len(lines) = 0 THEN <<>>
    ELSE IF Len(lines) = 1 THEN lines[1]
    ELSE lines[1] \o <<sep>> \o Join(sep, Tail(lines))

\* lines 93-98
BuildPrompt(kind, examples, item) ==
    Join(NL, [j \in 1..Len(examples) |-> FormatContext(kind, examples[j])])
        \o FormatQuery(kind, item)

\* variant: the bar is set to the increment instead of advanced by it
TqdmUpdateSets(n, by) == by

\* line 99: self.tqdm_bar.update(1)
TqdmUpdate(n, by) == n + by

\* history: one more pop of index x, counted relative to the least-popped index
CountSelection(lead, x) ==
    LET raw == [lead EXCEPT ![x] = @ + 1]
        least == CHOOSE m \in Range2(raw) : \A v \in Range2(raw) : m <= v
    IN  [i \in DOMAIN lead |-> raw[i] - least]

\* history: the pop of index x, logged while fewer than N pops were made
LogSelection(log, x) == IF Len(log) < Len(data) THEN Append(log, x) ELSE log

Failure(e, q) ==
    [NoResult EXCEPT !.op = "next", !.outcome = "error", !.error = e, !.query = q]

\* variant: a missing counter is taken as a reached budget
NextUninitializedStops ==
    /\ ~has_iteration
    /\ ret' = [NoResult EXCEPT !.op = "next", !.outcome = "StopIteration"]
    /\ UNCHANGED <<config, ids, ids_queue, has_iteration, current_iteration,
                   tqdm_n, tqdm_closed, pass_emitted, pass_refilled,
                   pass_failed, produced, lifetime>>

\* line 78 on an object on which __iter__ never ran: no attribute current_iteration
NextUninitialized ==
    /\ ~has_iteration
    /\ ret' = Failure("AttributeError", -1)
    /\ UNCHANGED <<config, ids, ids_queue, has_iteration, current_iteration,
                   tqdm_n, tqdm_closed, pass_emitted, pass_refilled,
                   pass_failed, produced, lifetime>>

\* variant: reaching the budget also rewinds the counter
NextStopRewinds ==
    /\ has_iteration
    /\ StopReached(current_iteration, dataset_size)
    /\ tqdm_closed' = TRUE
    /\ current_iteration' = 0
    /\ ret' = [NoResult EXCEPT !.op = "next", !.outcome = "StopIteration"]
    /\ UNCHANGED <<config, ids, ids_queue, has_iteration,
                   tqdm_n, pass_emitted, pass_refilled, pass_failed, produced,
                   lifetime>>

\* lines 78-80
NextStop ==
    /\ has_iteration
    /\ StopReached(current_iteration, dataset_size)
    /\ tqdm_closed' = TRUE
    /\ ret' = [NoResult EXCEPT !.op = "next", !.outcome = "StopIteration"]
    /\ UNCHANGED <<config, ids, ids_queue, has_iteration, current_iteration,
                   tqdm_n, pass_emitted, pass_refilled, pass_failed, produced,
                   lifetime>>

\* lines 82-86 on an empty corpus: pop(0) from the empty refilled queue
NextPopError ==
    /\ has_iteration
    /\ ~StopReached(current_iteration, dataset_size)
    /\ \E r \in Refill(ids, ids_queue) :
        /\ Len(r[2]) = 0
        /\ ids' = r[1]
        /\ ids_queue' = r[2]
    /\ ret' = Failure("IndexError", -1)
    /\ pass_emitted' = <<>>
    /\ pass_refilled' = TRUE
    /\ pass_failed' = TRUE
    /\ UNCHANGED <<config, has_iteration, current_iteration, tqdm_n,
                   tqdm_closed, produced, lifetime>>

\* lines 82-90 when random.sample raises
NextSampleError ==
    /\ has_iteration
    /\ ~StopReached(current_iteration, dataset_size)
    /\ \E r \in Refill(ids, ids_queue) :
        /\ Len(r[2]) > 0
        /\ LET next_index == PopIndex(r[2])
               prediction_item == data[next_index + 1]
               context_candidates == ContextCandidates(data, prediction_item)
           IN  /\ SampleFails(context_candidates, context_size)
               /\ ids' = r[1]
               /\ ids_queue' = PopRest(r[2])
               /\ ret' = Failure("ValueError", next_index)
               /\ selected_lead' = CountSelection(selected_lead, next_index)
               /\ first_selected' = LogSelection(first_selected, next_index)
    /\ pass_emitted' = IF Len(ids_queue) = 0 THEN <<>> ELSE pass_emitted
    /\ pass_refilled' = (Len(ids_queue) = 0 \/ pass_refilled)
    /\ pass_failed' = TRUE
    /\ UNCHANGED <<config, has_iteration, current_iteration, tqdm_n,
                   tqdm_closed, produced>>

\* lines 82-101 when a prompt is returned
NextPrompt ==
    /\ has_iteration
    /\ ~StopReached(current_iteration, dataset_size)
    /\ \E r \in Refill(ids, ids_queue) :
        /\ Len(r[2]) > 0
        /\ LET next_index == PopIndex(r[2])
               prediction_item == data[next_index + 1]
               context_candidates == ContextCandidates(data, prediction_item)
           IN  /\ ~SampleFails(context_candidates, context_size)
               /\ \E context \in Samples(context_candidates, context_size) :
                    ret' = [op |-> "next", outcome |-> "prompt", error |-> "none",
                            query |-> next_index, context |-> context,
                            prompt |-> BuildPrompt(file_kind,
                                          [j \in 1..Len(context) |-> data[context[j] + 1]],
                                          prediction_item)]
               /\ ids' = r[1]
               /\ ids_queue' = PopRest(r[2])
               /\ pass_emitted' = (IF Len(ids_queue) = 0 THEN <<>> ELSE pass_emitted)
                                      \o <<next_index>>
               /\ selected_lead' = CountSelection(selected_lead, next_index)
               /\ first_selected' = LogSelection(first_selected, next_index)
    /\ pass_refilled' = (Len(ids_queue) = 0 \/ pass_refilled)
    /\ pass_failed' = (Len(ids_queue) # 0 /\ pass_failed)
    /\ tqdm_n' = TqdmUpdate(tqdm_n, 1)
    /\ current_iteration' = current_iteration + 1
    /\ produced' = produced + 1
    /\ UNCHANGED <<config, has_iteration, tqdm_closed>>

Next ==
    \/ Iter
    \/ NextUninitialized
    \/ NextStop
    \/ NextPopError
    \/ NextSampleError
    \/ NextPrompt

Spec == Init /\ [][Next]_vars
(***************************************************************************)
(* Properties                                                              *)
(***************************************************************************)

Distinct(d) == \A i, j \in 1..Len(d) : i # j => d[i] # d[j]

NoRepeat(s) == \A i, j \in 1..Len(s) : i # j => s[i] # s[j]

Indices == 0..(Len(data) - 1)

\* the last call was a __next__ that got past the budget test of line 78
Stepped == ret.op = "next" /\ ret.outcome \in {"prompt", "error"}
              /\ ret.error # "AttributeError"

\* the corpus entries that are not value-equal to the query of the last step
UnequalToQuery ==
    IF ret.query < 0 THEN {}
    ELSE {i \in Indices : data[i + 1] # data[ret.query + 1]}

\* N >= 2 pairwise distinct items, 0 < k <= N-1, T >= 0
InContract ==
    /\ Len(data) >= 2
    /\ Distinct(data)
    /\ context_size > 0
    /\ context_size <= Len(data) - 1
    /\ dataset_size >= 0

\* C1: for N >= 2 distinct items, 0 < k <= N-1 and T >= 0, an iteration
\* started by __iter__ never fails, never returns more than T prompts and
\* signals the end only once exactly T prompts were returned (so with T = 0
\* the first step signals the end).
C1_ExactlyTargetPrompts ==
    (InContract /\ has_iteration) =>
        /\ produced <= dataset_size
        /\ ret.outcome # "error"
        /\ (ret.outcome = "StopIteration" => produced = dataset_size)
        /\ (ret.outcome = "prompt" => produced >= 1)

C1_Witness ==
    /\ InContract
    /\ ret.outcome = "StopIteration"
    /\ dataset_size > Len(data)
    /\ produced = dataset_size

\* C2: in a pass that began with a refill and had no failing step, no index is
\* the query twice, the indices not yet used are exactly those left in the
\* queue (so no refill comes before N steps), and after N steps every index
\* 0..N-1 was the query exactly once.
C2_FullPassUsesEachIndexOnce ==
    (pass_refilled /\ ~pass_failed) =>
        /\ NoRepeat(pass_emitted)
        /\ Range(pass_emitted) \subseteq Indices
        /\ Len(pass_emitted) + Len(ids_queue) = Len(data)
        /\ (Len(pass_emitted) = Len(data) => Range(pass_emitted) = Indices)

C2_Witness ==
    /\ pass_refilled
    /\ ~pass_failed
    /\ Len(data) >= 3
    /\ Len(pass_emitted) = Len(data)

\* C3: in every reachable state every corpus index is either in the queue or
\* among the queries emitted since the queue was last filled, never both and
\* never neither, and the queue holds no index twice.
C3_QueueEmittedPartition ==
    /\ NoRepeat(ids_queue)
    /\ \A i \in Indices :
          (i \in Range(ids_queue)) # (i \in Range(pass_emitted))

\* C4: no context item of a produced prompt is value-equal to its query.
C4_NoContextEqualsQuery ==
    ret.outcome = "prompt" =>
        \A i \in Indices :
            data[i + 1] = data[ret.query + 1] => i \notin Range(ret.context)

C4_Witness ==
    /\ ret.outcome = "prompt"
    /\ Len(ret.context) >= 1
    /\ \E i \in Indices : i # ret.query /\ data[i + 1] = data[ret.query + 1]

\* C5: the context of a produced prompt is k corpus entries from k pairwise
\* distinct corpus positions, none of them the position of the query.
C5_ContextWithoutReplacement ==
    ret.outcome = "prompt" =>
        /\ Len(ret.context) = context_size
        /\ Range(ret.context) \subseteq Indices
        /\ NoRepeat(ret.context)
        /\ ret.query \notin Range(ret.context)

C5_Witness ==
    /\ ret.outcome = "prompt"
    /\ context_size >= 2
    /\ Len(ret.context) = context_size

\* the lines of a string: its pieces between newlines
RECURSIVE SplitLines(_)
SplitLines(s) ==
    IF \A i \in 1..Len(s) : s[i] # NL THEN <<s>>
    ELSE LET i == CHOOSE j \in 1..Len(s) :
                    s[j] = NL /\ \A h \in 1..(j - 1) : s[h] # NL
         IN  <<SubSeq(s, 1, i - 1)>> \o SplitLines(SubSeq(s, i + 1, Len(s)))

\* the field values a line shows, in order
FieldsOf(line) == SelectSeq(line, LAMBDA t : t[1] # "lit")

\* C6: a produced prompt (0 < k <= N-1) splits at its newlines into exactly
\* k + 1 lines; line j shows the input and the output of the j-th drawn context
\* item, and the last line shows the input of the query, no output, and ends
\* with the literal separator.
C6_PromptLines ==
    (ret.outcome = "prompt" /\ context_size > 0) =>
        LET lines == SplitLines(ret.prompt)
            k == context_size
        IN  /\ Len(lines) = k + 1
            /\ \A j \in 1..k :
                  FieldsOf(lines[j]) =
                      << <<"input", data[ret.context[j] + 1].input>>,
                         <<"output", data[ret.context[j] + 1].output>> >>
            /\ FieldsOf(lines[k + 1]) = << <<"input", data[ret.query + 1].input>> >>
            /\ lines[k + 1][Len(lines[k + 1])][1] = "lit"

C6_Witness ==
    /\ ret.outcome = "prompt"
    /\ context_size >= 2
    /\ Len(SplitLines(ret.prompt)) = context_size + 1

\* C7: a step that got past the budget test fails exactly when fewer than k
\* corpus entries are not value-equal to the selected query, and otherwise
\* returns a prompt; no failure is reported before a step runs, and with
\* k >= N every such step fails.
C7_FailsIffTooFewCandidates ==
    /\ (ret.op # "next" => ret.outcome # "error")
    /\ Stepped =>
          /\ (ret.outcome = "error") = (Cardinality(UnequalToQuery) < context_size)
          /\ (ret.outcome = "prompt") = (Cardinality(UnequalToQuery) >= context_size)
          /\ (ret.outcome = "error" /\ ret.query >= 0 => ret.error = "ValueError")
          /\ (context_size >= Len(data) => ret.outcome = "error")

C7_Witness ==
    /\ Stepped
    /\ ret.query >= 0
    /\ ret.outcome = "error"
    /\ context_size >= Len(data)

\* C8 as claimed: for every corpus, a step with k = N-1 returns a prompt whose
\* context is the corpus without the query, and a step with k = N fails.
C8_BoundaryEveryCorpus ==
    Stepped =>
        /\ (context_size = Len(data) - 1 =>
               /\ ret.outcome = "prompt"
               /\ Range(ret.context) = Indices \ {ret.query})
        /\ (context_size = Len(data) => ret.outcome = "error")

\* C8: for every corpus of pairwise distinct items, a step that got past the
\* budget test returns with k = N-1 a prompt whose context is the corpus
\* without the query, and fails with k = N.
C8_BoundaryDistinctCorpus ==
    (Stepped /\ Distinct(data)) =>
        /\ (context_size = Len(data) - 1 =>
               /\ ret.outcome = "prompt"
               /\ Range(ret.context) = Indices \ {ret.query})
        /\ (context_size = Len(data) => ret.outcome = "error")

C8_Witness ==
    /\ Stepped
    /\ Distinct(data)
    /\ Len(data) = 3
    /\ context_size = 2
    /\ ret.outcome = "prompt"

\* C9: a failing __next__ leaves the queue, the queries emitted in the current
\* pass and the emitted count as they were before the call.
C9_FailedStepChangesNothing ==
    [][ret'.outcome = "error" =>
          /\ ids_queue' = ids_queue
          /\ pass_emitted' = pass_emitted
          /\ current_iteration' = current_iteration]_vars

\* C10: with a negative target count no call reports plain exhaustion: a
\* __next__ on the started iteration ends in an error.
C10_NegativeTargetIsError ==
    (dataset_size < 0 /\ has_iteration /\ ret.op = "next") =>
        ret.outcome = "error"


\* C11: with an empty corpus and T >= 0, every __next__ on the started
\* iteration ends in an error, never in a prompt or in the end-of-sequence
\* signal.
C11_EmptyCorpusIsError ==
    (Len(data) = 0 /\ dataset_size >= 0 /\ has_iteration /\ ret.op = "next") =>
        ret.outcome = "error"

\* C13: the queue right after construction is the fresh permutation that
\* construction shuffled (line 26), so any order of 0..N-1 can start the
\* first pass.
C13_InitialQueueIsShuffled ==
    ret.op = "none" => ids_queue = ids

\* C16: a step that gets past the budget test selects the head of the queue
\* (of the fresh permutation when it refills), removes exactly that index and
\* keeps the order of the rest.
C16_QueryIsQueueHead ==
    [][(ret'.op = "next" /\ ret'.query >= 0) =>
          LET before == IF Len(ids_queue) = 0 THEN ids' ELSE ids_queue
          IN  /\ Len(before) > 0
              /\ ret'.query = before[1]
              /\ ids_queue' = [j \in 1..(Len(before) - 1) |-> before[j + 1]]
              /\ (Len(ids_queue) # 0 => ids' = ids)]_vars

C16_Witness ==
    /\ pass_refilled
    /\ ~pass_failed
    /\ Len(pass_emitted) >= 2
    /\ pass_emitted \o ids_queue = ids
    /\ ids # ListRange(Len(data))

\* C17: a __next__ taken when emitted_count >= T signals the end of the
\* sequence and changes neither the queue (no refill, no pop) nor the count,
\* so the budget stays reached for the step after it.
C17_StopBeforeRefillAndPop ==
    [][(has_iteration /\ current_iteration >= dataset_size /\ ret'.op = "next") =>
          /\ ret'.outcome = "StopIteration"
          /\ ids_queue' = ids_queue
          /\ ids' = ids
          /\ current_iteration' = current_iteration
          /\ current_iteration' >= dataset_size']_vars

C17_Witness ==
    /\ ret.outcome = "StopIteration"
    /\ dataset_size >= 1
    /\ Len(data) >= 1
    /\ Len(ids_queue) = 0

\* C20: a __next__ on a sampler on which __iter__ never ran ends in an error
\* (no prompt, no end-of-sequence signal) and leaves the queue unchanged.
C20_NextBeforeIterFails ==
    [][(~has_iteration /\ ret'.op = "next") =>
          /\ ret'.outcome = "error"
          /\ ids_queue' = ids_queue
          /\ ids' = ids
          /\ ~has_iteration']_vars

C20_Witness ==
    /\ ~has_iteration
    /\ ret.op = "next"
    /\ ret.outcome = "error"
    /\ Len(ids_queue) = Len(data)


\* C14: the count reported to the progress bar rises by exactly 1 on a step
\* that returns a prompt and stays on a failing step and on the
\* end-of-sequence signal; after every call of a started iteration it equals
\* emitted_count, and for T >= 0 it never exceeds T.
C14_ProgressFollowsEmittedCount ==
    [][/\ (has_iteration /\ ret'.op = "next") =>
             tqdm_n' = tqdm_n + (IF ret'.outcome = "prompt" THEN 1 ELSE 0)
       /\ has_iteration' => tqdm_n' = current_iteration'
       /\ (has_iteration' /\ dataset_size' >= 0) => tqdm_n' <= dataset_size']_vars

C14_Witness ==
    /\ ret.outcome = "prompt"
    /\ dataset_size >= 2
    /\ tqdm_n = dataset_size

\* C18: __iter__ sets emitted_count to 0 and leaves the queue as it is, so
\* across restarts the queries emitted since the queue was last filled never
\* repeat and are never still in the queue.
C18_RestartKeepsPass ==
    [][/\ ret'.op = "iter" =>
             /\ current_iteration' = 0
             /\ ids_queue' = ids_queue
             /\ ids' = ids
       /\ NoRepeat(pass_emitted')
       /\ Range(pass_emitted') \cap Range(ids_queue') = {}]_vars

C18_Witness ==
    /\ pass_refilled
    /\ ret.outcome = "prompt"
    /\ produced < Len(pass_emitted)
    /\ Len(pass_emitted) = Len(data)


\* C19: the numbers of times any two indices were popped as query differ by
\* at most 1, and the first N pops since construction are pairwise distinct,
\* so an index is popped a second time only as pop N+1 or later.
C19_BalancedQueryUse ==
    /\ \A i, j \in Indices : selected_lead[i] - selected_lead[j] <= 1
    /\ NoRepeat(first_selected)

C19_Witness ==
    /\ Len(data) >= 2
    /\ Len(first_selected) = Len(data)
    /\ pass_refilled
    /\ \E i, j \in Indices : selected_lead[i] = 1 /\ selected_lead[j] = 0


\* C12 as claimed: over the lifetime of one sampler at most T prompts are
\* produced.  Until the queue is first refilled, pass_emitted holds the query
\* of every prompt produced since construction.
C12_AtMostTargetPromptsEver ==
    (~pass_refilled /\ dataset_size >= 0) => Len(pass_emitted) <= dataset_size

\* C12: within one iteration (from one __iter__ to the next) at most T prompts
\* are produced, and once the end of the sequence was signalled every call
\* before the next __iter__ signals it again.
C12_SinglePassPerIteration ==
    /\ (tqdm_closed => ret.outcome = "StopIteration")
    /\ (has_iteration /\ dataset_size >= 0 => produced <= dataset_size)
    /\ (has_iteration /\ dataset_size < 0 => produced = 0)

C12_Witness ==
    /\ tqdm_closed
    /\ dataset_size >= 1
    /\ produced = dataset_size
    /\ Len(first_selected) > dataset_size

====
